---- MODULE Spec2Model ----
(***************************************************************************)
(* Model of data/process_data.py: the ETL script that joins a messages     *)
(* CSV with a categories CSV, expands the category string into binary      *)
(* columns, removes duplicates, fills missing values and stores the        *)
(* result in the DisasterMessages table of a SQLite file.                  *)
(*                                                                         *)
(* Text is a sequence of characters, each a string (an ASCII character     *)
(* itself, any other by its code point, "U+0663"), so that slicing         *)
(* (x[:-2], x[-1]) and splitting on ";" are computed as Python does.       *)
(* A cell of a table is a tagged record: a number, a text or NaN/None.     *)
(* A DataFrame is a record of its column labels, the dtype kind of each    *)
(* column and its rows (each row a sequence of cells, one per column).     *)
(***************************************************************************)
EXTENDS Integers, Sequences, FiniteSets, TLC

VARIABLES
    pc,               \* where the process is in main, or how it ended
    argc,             \* len(sys.argv)
    messages_file,    \* the messages CSV on disk
    categories_file,  \* the categories CSV on disk
    df,               \* the table bound to main's variable df
    joined,           \* the table object load_data returned, as it is now
    db,               \* the DisasterMessages table of the database file
    db_at_start,      \* that table as it was when the process started
    out,              \* the lines printed so far
    err               \* the exception that ended the process, "none" if none

vars == <<pc, argc, messages_file, categories_file, df, joined, db, db_at_start, out, err>>

(* ------------------------------ bounds -------------------------------- *)

\* rows of the messages CSV and of the categories CSV, taken together
MaxRows == 3
\* identifiers are drawn from 1..MaxId
MaxId == 2

(* ------------------------------- cells -------------------------------- *)

NaN == [t |-> "nan", n |-> 0, s |-> <<>>]
Num(i) == [t |-> "num", n |-> i, s |-> <<>>]
Str(x) == [t |-> "str", n |-> 0, s |-> x]

IsNull(c) == c.t = "nan"

\* column labels and texts used by the script and by the inputs
id == <<"i", "d">>
message == <<"m", "e", "s", "s", "a", "g", "e">>
original == <<"o", "r", "i", "g", "i", "n", "a", "l">>
categories == <<"c", "a", "t", "e", "g", "o", "r", "i", "e", "s">>
help == <<"h", "e", "l", "p">>
aide == <<"a", "i", "d", "e">>
dot == <<".">>

(* ----------------------------- sequences ------------------------------ *)

RECURSIVE SeqsUpTo(_, _)
\* every sequence over S of length at most n
SeqsUpTo(S, n) ==
    IF n = 0 THEN {<<>>}
    ELSE LET shorter == SeqsUpTo(S, n - 1)
         IN  shorter \cup {Append(q, e) : q \in {p \in shorter : Len(p) = n - 1}, e \in S}

\* the subsequence of s at the positions satisfying keep, in order
RECURSIVE Pick(_, _, _)
Pick(s, keep, i) ==
    IF i > Len(s) THEN <<>>
    ELSE (IF keep[i] THEN <<s[i]>> ELSE <<>>) \o Pick(s, keep, i + 1)

(* ---------------------------- str.split ------------------------------- *)

RECURSIVE Split(_, _)
\* Python's x.split(sep) for a one-character separator
Split(x, sep) ==
    IF \E i \in DOMAIN x : x[i] = sep
    THEN LET i == CHOOSE j \in DOMAIN x : x[j] = sep /\ \A k \in 1..(j - 1) : x[k] # sep
         IN  <<SubSeq(x, 1, i - 1)>> \o Split(SubSeq(x, i + 1, Len(x)), sep)
    ELSE <<x>>

\* the decimal digits of Unicode 14.0.0 (general category Nd), one row per
\* script, each row in the order 0..9; a character outside ASCII is written
\* by its code point, "U+0663" for ARABIC-INDIC DIGIT THREE
DecimalDigits ==
    << <<"0", "1", "2", "3", "4", "5", "6", "7", "8", "9">>,
       <<"U+0660", "U+0661", "U+0662", "U+0663", "U+0664", "U+0665", "U+0666", "U+0667", "U+0668", "U+0669">>,
       <<"U+06F0", "U+06F1", "U+06F2", "U+06F3", "U+06F4", "U+06F5", "U+06F6", "U+06F7", "U+06F8", "U+06F9">>,
       <<"U+07C0", "U+07C1", "U+07C2", "U+07C3", "U+07C4", "U+07C5", "U+07C6", "U+07C7", "U+07C8", "U+07C9">>,
       <<"U+0966", "U+0967", "U+0968", "U+0969", "U+096A", "U+096B", "U+096C", "U+096D", "U+096E", "U+096F">>,
       <<"U+09E6", "U+09E7", "U+09E8", "U+09E9", "U+09EA", "U+09EB", "U+09EC", "U+09ED", "U+09EE", "U+09EF">>,
       <<"U+0A66", "U+0A67", "U+0A68", "U+0A69", "U+0A6A", "U+0A6B", "U+0A6C", "U+0A6D", "U+0A6E", "U+0A6F">>,
       <<"U+0AE6", "U+0AE7", "U+0AE8", "U+0AE9", "U+0AEA", "U+0AEB", "U+0AEC", "U+0AED", "U+0AEE", "U+0AEF">>,
       <<"U+0B66", "U+0B67", "U+0B68", "U+0B69", "U+0B6A", "U+0B6B", "U+0B6C", "U+0B6D", "U+0B6E", "U+0B6F">>,
       <<"U+0BE6", "U+0BE7", "U+0BE8", "U+0BE9", "U+0BEA", "U+0BEB", "U+0BEC", "U+0BED", "U+0BEE", "U+0BEF">>,
       <<"U+0C66", "U+0C67", "U+0C68", "U+0C69", "U+0C6A", "U+0C6B", "U+0C6C", "U+0C6D", "U+0C6E", "U+0C6F">>,
       <<"U+0CE6", "U+0CE7", "U+0CE8", "U+0CE9", "U+0CEA", "U+0CEB", "U+0CEC", "U+0CED", "U+0CEE", "U+0CEF">>,
       <<"U+0D66", "U+0D67", "U+0D68", "U+0D69", "U+0D6A", "U+0D6B", "U+0D6C", "U+0D6D", "U+0D6E", "U+0D6F">>,
       <<"U+0DE6", "U+0DE7", "U+0DE8", "U+0DE9", "U+0DEA", "U+0DEB", "U+0DEC", "U+0DED", "U+0DEE", "U+0DEF">>,
       <<"U+0E50", "U+0E51", "U+0E52", "U+0E53", "U+0E54", "U+0E55", "U+0E56", "U+0E57", "U+0E58", "U+0E59">>,
       <<"U+0ED0", "U+0ED1", "U+0ED2", "U+0ED3", "U+0ED4", "U+0ED5", "U+0ED6", "U+0ED7", "U+0ED8", "U+0ED9">>,
       <<"U+0F20", "U+0F21", "U+0F22", "U+0F23", "U+0F24", "U+0F25", "U+0F26", "U+0F27", "U+0F28", "U+0F29">>,
       <<"U+1040", "U+1041", "U+1042", "U+1043", "U+1044", "U+1045", "U+1046", "U+1047", "U+1048", "U+1049">>,
       <<"U+1090", "U+1091", "U+1092", "U+1093", "U+1094", "U+1095", "U+1096", "U+1097", "U+1098", "U+1099">>,
       <<"U+17E0", "U+17E1", "U+17E2", "U+17E3", "U+17E4", "U+17E5", "U+17E6", "U+17E7", "U+17E8", "U+17E9">>,
       <<"U+1810", "U+1811", "U+1812", "U+1813", "U+1814", "U+1815", "U+1816", "U+1817", "U+1818", "U+1819">>,
       <<"U+1946", "U+1947", "U+1948", "U+1949", "U+194A", "U+194B", "U+194C", "U+194D", "U+194E", "U+194F">>,
       <<"U+19D0", "U+19D1", "U+19D2", "U+19D3", "U+19D4", "U+19D5", "U+19D6", "U+19D7", "U+19D8", "U+19D9">>,
       <<"U+1A80", "U+1A81", "U+1A82", "U+1A83", "U+1A84", "U+1A85", "U+1A86", "U+1A87", "U+1A88", "U+1A89">>,
       <<"U+1A90", "U+1A91", "U+1A92", "U+1A93", "U+1A94", "U+1A95", "U+1A96", "U+1A97", "U+1A98", "U+1A99">>,
       <<"U+1B50", "U+1B51", "U+1B52", "U+1B53", "U+1B54", "U+1B55", "U+1B56", "U+1B57", "U+1B58", "U+1B59">>,
       <<"U+1BB0", "U+1BB1", "U+1BB2", "U+1BB3", "U+1BB4", "U+1BB5", "U+1BB6", "U+1BB7", "U+1BB8", "U+1BB9">>,
       <<"U+1C40", "U+1C41", "U+1C42", "U+1C43", "U+1C44", "U+1C45", "U+1C46", "U+1C47", "U+1C48", "U+1C49">>,
       <<"U+1C50", "U+1C51", "U+1C52", "U+1C53", "U+1C54", "U+1C55", "U+1C56", "U+1C57", "U+1C58", "U+1C59">>,
       <<"U+A620", "U+A621", "U+A622", "U+A623", "U+A624", "U+A625", "U+A626", "U+A627", "U+A628", "U+A629">>,
       <<"U+A8D0", "U+A8D1", "U+A8D2", "U+A8D3", "U+A8D4", "U+A8D5", "U+A8D6", "U+A8D7", "U+A8D8", "U+A8D9">>,
       <<"U+A900", "U+A901", "U+A902", "U+A903", "U+A904", "U+A905", "U+A906", "U+A907", "U+A908", "U+A909">>,
       <<"U+A9D0", "U+A9D1", "U+A9D2", "U+A9D3", "U+A9D4", "U+A9D5", "U+A9D6", "U+A9D7", "U+A9D8", "U+A9D9">>,
       <<"U+A9F0", "U+A9F1", "U+A9F2", "U+A9F3", "U+A9F4", "U+A9F5", "U+A9F6", "U+A9F7", "U+A9F8", "U+A9F9">>,
       <<"U+AA50", "U+AA51", "U+AA52", "U+AA53", "U+AA54", "U+AA55", "U+AA56", "U+AA57", "U+AA58", "U+AA59">>,
       <<"U+ABF0", "U+ABF1", "U+ABF2", "U+ABF3", "U+ABF4", "U+ABF5", "U+ABF6", "U+ABF7", "U+ABF8", "U+ABF9">>,
       <<"U+FF10", "U+FF11", "U+FF12", "U+FF13", "U+FF14", "U+FF15", "U+FF16", "U+FF17", "U+FF18", "U+FF19">>,
       <<"U+104A0", "U+104A1", "U+104A2", "U+104A3", "U+104A4", "U+104A5", "U+104A6", "U+104A7", "U+104A8", "U+104A9">>,
       <<"U+10D30", "U+10D31", "U+10D32", "U+10D33", "U+10D34", "U+10D35", "U+10D36", "U+10D37", "U+10D38", "U+10D39">>,
       <<"U+11066", "U+11067", "U+11068", "U+11069", "U+1106A", "U+1106B", "U+1106C", "U+1106D", "U+1106E", "U+1106F">>,
       <<"U+110F0", "U+110F1", "U+110F2", "U+110F3", "U+110F4", "U+110F5", "U+110F6", "U+110F7", "U+110F8", "U+110F9">>,
       <<"U+11136", "U+11137", "U+11138", "U+11139", "U+1113A", "U+1113B", "U+1113C", "U+1113D", "U+1113E", "U+1113F">>,
       <<"U+111D0", "U+111D1", "U+111D2", "U+111D3", "U+111D4", "U+111D5", "U+111D6", "U+111D7", "U+111D8", "U+111D9">>,
       <<"U+112F0", "U+112F1", "U+112F2", "U+112F3", "U+112F4", "U+112F5", "U+112F6", "U+112F7", "U+112F8", "U+112F9">>,
       <<"U+11450", "U+11451", "U+11452", "U+11453", "U+11454", "U+11455", "U+11456", "U+11457", "U+11458", "U+11459">>,
       <<"U+114D0", "U+114D1", "U+114D2", "U+114D3", "U+114D4", "U+114D5", "U+114D6", "U+114D7", "U+114D8", "U+114D9">>,
       <<"U+11650", "U+11651", "U+11652", "U+11653", "U+11654", "U+11655", "U+11656", "U+11657", "U+11658", "U+11659">>,
       <<"U+116C0", "U+116C1", "U+116C2", "U+116C3", "U+116C4", "U+116C5", "U+116C6", "U+116C7", "U+116C8", "U+116C9">>,
       <<"U+11730", "U+11731", "U+11732", "U+11733", "U+11734", "U+11735", "U+11736", "U+11737", "U+11738", "U+11739">>,
       <<"U+118E0", "U+118E1", "U+118E2", "U+118E3", "U+118E4", "U+118E5", "U+118E6", "U+118E7", "U+118E8", "U+118E9">>,
       <<"U+11950", "U+11951", "U+11952", "U+11953", "U+11954", "U+11955", "U+11956", "U+11957", "U+11958", "U+11959">>,
       <<"U+11C50", "U+11C51", "U+11C52", "U+11C53", "U+11C54", "U+11C55", "U+11C56", "U+11C57", "U+11C58", "U+11C59">>,
       <<"U+11D50", "U+11D51", "U+11D52", "U+11D53", "U+11D54", "U+11D55", "U+11D56", "U+11D57", "U+11D58", "U+11D59">>,
       <<"U+11DA0", "U+11DA1", "U+11DA2", "U+11DA3", "U+11DA4", "U+11DA5", "U+11DA6", "U+11DA7", "U+11DA8", "U+11DA9">>,
       <<"U+16A60", "U+16A61", "U+16A62", "U+16A63", "U+16A64", "U+16A65", "U+16A66", "U+16A67", "U+16A68", "U+16A69">>,
       <<"U+16AC0", "U+16AC1", "U+16AC2", "U+16AC3", "U+16AC4", "U+16AC5", "U+16AC6", "U+16AC7", "U+16AC8", "U+16AC9">>,
       <<"U+16B50", "U+16B51", "U+16B52", "U+16B53", "U+16B54", "U+16B55", "U+16B56", "U+16B57", "U+16B58", "U+16B59">>,
       <<"U+1D7CE", "U+1D7CF", "U+1D7D0", "U+1D7D1", "U+1D7D2", "U+1D7D3", "U+1D7D4", "U+1D7D5", "U+1D7D6", "U+1D7D7">>,
       <<"U+1D7D8", "U+1D7D9", "U+1D7DA", "U+1D7DB", "U+1D7DC", "U+1D7DD", "U+1D7DE", "U+1D7DF", "U+1D7E0", "U+1D7E1">>,
       <<"U+1D7E2", "U+1D7E3", "U+1D7E4", "U+1D7E5", "U+1D7E6", "U+1D7E7", "U+1D7E8", "U+1D7E9", "U+1D7EA", "U+1D7EB">>,
       <<"U+1D7EC", "U+1D7ED", "U+1D7EE", "U+1D7EF", "U+1D7F0", "U+1D7F1", "U+1D7F2", "U+1D7F3", "U+1D7F4", "U+1D7F5">>,
       <<"U+1D7F6", "U+1D7F7", "U+1D7F8", "U+1D7F9", "U+1D7FA", "U+1D7FB", "U+1D7FC", "U+1D7FD", "U+1D7FE", "U+1D7FF">>,
       <<"U+1E140", "U+1E141", "U+1E142", "U+1E143", "U+1E144", "U+1E145", "U+1E146", "U+1E147", "U+1E148", "U+1E149">>,
       <<"U+1E2F0", "U+1E2F1", "U+1E2F2", "U+1E2F3", "U+1E2F4", "U+1E2F5", "U+1E2F6", "U+1E2F7", "U+1E2F8", "U+1E2F9">>,
       <<"U+1E950", "U+1E951", "U+1E952", "U+1E953", "U+1E954", "U+1E955", "U+1E956", "U+1E957", "U+1E958", "U+1E959">>,
       <<"U+1FBF0", "U+1FBF1", "U+1FBF2", "U+1FBF3", "U+1FBF4", "U+1FBF5", "U+1FBF6", "U+1FBF7", "U+1FBF8", "U+1FBF9">> >>

\* the characters that stand for the digit v, v in 0..9
DigitSets == [v \in 0..9 |-> {DecimalDigits[r][v + 1] : r \in DOMAIN DecimalDigits}]

\* int(x) of a one-character text x: the value of a decimal digit of any
\* script, -1 where int raises ValueError
DigitValue(c) ==
    IF \E v \in 0..9 : c \in DigitSets[v]
    THEN CHOOSE v \in 0..9 : c \in DigitSets[v]
    ELSE -1

\* int(x) raises ValueError unless the one-character text x is a digit
IsDigit(c) == DigitValue(c) >= 0

(* ----------------------------- DataFrame ------------------------------ *)

DataFrame(cols, kinds, rows) == [columns |-> cols, kinds |-> kinds, rows |-> rows]

\* a CSV file on disk: missing, unparsable, or a header and rows of fields
CsvFile(status, cols, rows) == [status |-> status, columns |-> cols, rows |-> rows]

\* the dtype kind pandas infers for column k of parsed rows: object for a
\* column without rows or with a text in it, int64 ('i') for numbers only,
\* float64 ('f') as soon as a number column (or an all-empty one) has a NaN
InferKind(rows, k) ==
    LET cells == {rows[r][k] : r \in DOMAIN rows}
    IN  IF rows = <<>> \/ \E c \in cells : c.t = "str" THEN "O"
        ELSE IF \E c \in cells : c.t = "nan" THEN "f"
        ELSE "i"

\* pd.read_csv(filepath) of a readable file
read_csv(file) ==
    DataFrame(file.columns,
              [k \in DOMAIN file.columns |-> InferKind(file.rows, k)],
              file.rows)

KeyPos(frame, label) == CHOOSE k \in DOMAIN frame.columns : frame.columns[k] = label

\* the positions of the columns of frame whose label is not `label`
Others(frame, label) == [k \in DOMAIN frame.columns |-> frame.columns[k] # label]

WithoutColumn(frame, label) ==
    DataFrame(Pick(frame.columns, Others(frame, label), 1),
              Pick(frame.kinds, Others(frame, label), 1),
              [r \in DOMAIN frame.rows |-> Pick(frame.rows[r], Others(frame, label), 1)])

RECURSIVE MatchRows_cross(_, _, _, _)
\* a join that pairs the left row with every row of right, whatever its key
MatchRows_cross(l, lkey, right, j) ==
    IF j > Len(right.rows) THEN <<>>
    ELSE <<l \o Pick(right.rows[j], Others(right, id), 1)>>
         \o MatchRows_cross(l, lkey, right, j + 1)

RECURSIVE MatchRows(_, _, _, _)
\* the rows of right (without its key) whose key equals that of the left row l,
\* each appended to l, in the order of right
MatchRows(l, lkey, right, j) ==
    IF j > Len(right.rows) THEN <<>>
    ELSE (IF right.rows[j][KeyPos(right, id)] = lkey
          THEN <<l \o Pick(right.rows[j], Others(right, id), 1)>>
          ELSE <<>>) \o MatchRows(l, lkey, right, j + 1)

RECURSIVE MergeRows(_, _, _)
MergeRows(left, right, i) ==
    IF i > Len(left.rows) THEN <<>>
    ELSE MatchRows(left.rows[i], left.rows[i][KeyPos(left, id)], right, 1)
         \o MergeRows(left, right, i + 1)

\* messages.merge(categories, left_on='id', right_on='id'): the inner join,
\* in the order of the left keys; no non-key label is shared, so no suffix
merge(left, right) ==
    DataFrame(left.columns \o Pick(right.columns, Others(right, id), 1),
              left.kinds \o Pick(right.kinds, Others(right, id), 1),
              MergeRows(left, right, 1))

\* what pd.read_csv raises for a file, "none" when it parses
ReadError(file) ==
    CASE file.status = "missing" -> "FileNotFoundError"
      [] file.status = "malformed" -> "ParserError"
      [] OTHER -> "none"

\* load_data: the error raised (messages are read first), or the merged table
load_data(messages_filepath, categories_filepath) ==
    IF ReadError(messages_filepath) # "none"
    THEN [err |-> ReadError(messages_filepath), df |-> DataFrame(<<>>, <<>>, <<>>)]
    ELSE IF ReadError(categories_filepath) # "none"
    THEN [err |-> ReadError(categories_filepath), df |-> DataFrame(<<>>, <<>>, <<>>)]
    ELSE [err |-> "none",
          df |-> merge(read_csv(messages_filepath), read_csv(categories_filepath))]

(* ----------------------------- clean_data ----------------------------- *)

Max(S) == CHOOSE m \in S : \A e \in S : e <= m
Min(S) == CHOOSE m \in S : \A e \in S : m <= e

\* the tokens of every row's category string
Tokens(frame) ==
    [r \in DOMAIN frame.rows |-> Split(frame.rows[r][KeyPos(frame, categories)].s, ";")]

\* a split that pads the shorter rows with the token "0" instead of None
SplitExpand_padded(frame) ==
    LET toks == Tokens(frame)
        width == Max({0} \cup {Len(toks[r]) : r \in DOMAIN toks})
    IN  [r \in DOMAIN toks |->
            [k \in 1..width |-> IF k <= Len(toks[r]) THEN Str(toks[r][k]) ELSE Str(<<"0">>)]]

\* df['categories'].str.split(";", expand=True): as many columns as the
\* longest row has tokens, shorter rows padded with None
SplitExpand(frame) ==
    LET toks == Tokens(frame)
        width == Max({0} \cup {Len(toks[r]) : r \in DOMAIN toks})
    IN  [r \in DOMAIN toks |->
            [k \in 1..width |-> IF k <= Len(toks[r]) THEN Str(toks[r][k]) ELSE NaN]]

\* x[:-2]
StripSuffix(x) == SubSeq(x, 1, Len(x) - 2)

\* x[-1]
LastChar(x) == x[Len(x)]

\* int(x), the digit kept as it is
Threshold_int(x) == DigitValue(x)

\* 1 if int(x) > 0 else 0
Threshold(x) == IF DigitValue(x) > 0 THEN 1 ELSE 0

\* the labels taken from the last row of the split table
category_colnames_last(cat) == [k \in DOMAIN cat[1] |-> StripSuffix(cat[Len(cat)][k].s)]

\* row.apply(lambda x: x[:-2]) on the first row of the split table
category_colnames(cat) == [k \in DOMAIN cat[1] |-> StripSuffix(cat[1][k].s)]

\* the error the loop body raises for the column at position k, "none" if
\* it completes: a label that occurs twice selects a DataFrame, where x[-1]
\* is a KeyError; x[-1] is a TypeError on None and an IndexError on "";
\* int(x) is a ValueError on a non-digit
ColumnError(cat, names, k) ==
    LET bad49 == {r \in DOMAIN cat : IsNull(cat[r][k]) \/ cat[r][k].s = <<>>}
        bad52 == {r \in DOMAIN cat : ~IsDigit(LastChar(cat[r][k].s))}
    IN  IF \E j \in DOMAIN names : j # k /\ names[j] = names[k] THEN "KeyError"
        ELSE IF bad49 # {}
        THEN (IF IsNull(cat[Min(bad49)][k]) THEN "TypeError" ELSE "IndexError")
        ELSE IF bad52 # {} THEN "ValueError"
        ELSE "none"

\* the first error clean_data raises on the joined table, "none" if it returns
CleanError(frame) ==
    LET cat == SplitExpand(frame)
    IN  IF frame.rows = <<>> THEN "IndexError"
        ELSE IF \E k \in DOMAIN cat[1] : IsNull(cat[1][k]) THEN "TypeError"
        ELSE LET names == category_colnames(cat)
                 bad == {k \in DOMAIN names : ColumnError(cat, names, k) # "none"}
             IN  IF bad = {} THEN "none" ELSE ColumnError(cat, names, Min(bad))

\* the split table after the loop: every token replaced by its 0/1 value
Binary(cat) ==
    [r \in DOMAIN cat |-> [k \in DOMAIN cat[r] |-> Num(Threshold(LastChar(cat[r][k].s)))]]

\* pd.concat([df, categories], axis=1): both tables carry the index 0..n-1
concat(frame, names, values) ==
    DataFrame(frame.columns \o names,
              frame.kinds \o [k \in DOMAIN names |-> "i"],
              [r \in DOMAIN frame.rows |-> frame.rows[r] \o values[r]])

\* df.drop_duplicates(): a row equal to an earlier one is dropped (NaN equals NaN)
drop_duplicates(frame) ==
    DataFrame(frame.columns, frame.kinds,
              Pick(frame.rows,
                   [r \in DOMAIN frame.rows |->
                       \A q \in 1..(r - 1) : frame.rows[q] # frame.rows[r]], 1))

\* df.fillna(0): every column filled with 0
FillValue_zero(kind) == Num(0)

\* the value x.fillna puts in a column of that dtype kind
FillValue(kind) == IF kind \in {"b", "i", "u", "f", "c"} THEN Num(0) ELSE Str(dot)

\* df.apply(lambda x: x.fillna(0) if x.dtype.kind in 'biufc' else x.fillna('.'))
fillna(frame) ==
    DataFrame(frame.columns, frame.kinds,
              [r \in DOMAIN frame.rows |->
                  [k \in DOMAIN frame.columns |->
                      IF IsNull(frame.rows[r][k]) THEN FillValue(frame.kinds[k])
                      ELSE frame.rows[r][k]]])

\* the caller's table once clean_data has run `df.drop(..., inplace=True)`
DropInPlace(frame) == WithoutColumn(frame, categories)

\* the table clean_data holds after line 62, before the missing values are
\* filled, for a joined table it accepts
Deduplicated(frame) ==
    LET cat == SplitExpand(frame)
    IN  drop_duplicates(concat(DropInPlace(frame), category_colnames(cat), Binary(cat)))

\* clean_data(df): the error raised, the table returned, and the state the
\* call leaves the caller's table in (an error is raised before line 56)
clean_data(frame) ==
    IF CleanError(frame) # "none"
    THEN [err |-> CleanError(frame), df |-> DataFrame(<<>>, <<>>, <<>>), arg |-> frame]
    ELSE [err |-> "none",
          df |-> fillna(Deduplicated(frame)),
          arg |-> DropInPlace(frame)]

(* ------------------------------ save_data ----------------------------- *)

\* the DisasterMessages table of the SQLite file, or its absence
NoTable == [exists |-> FALSE, columns |-> <<>>, rows |-> <<>>]

\* if_exists='append': the rows are added to those already stored
to_sql_append(frame, stored) ==
    [exists |-> TRUE, columns |-> frame.columns, rows |-> stored.rows \o frame.rows]

\* df.to_sql('DisasterMessages', engine, index=False, if_exists='replace'):
\* the stored table is dropped and created anew from the frame's columns and rows
to_sql(frame, stored) == [exists |-> TRUE, columns |-> frame.columns, rows |-> frame.rows]

save_data(frame, database) == to_sql(frame, database)

(* ------------------------------- inputs ------------------------------- *)

Token(name, last) == <<name, "-", last>>

RECURSIVE Join(_)
\* ";".join(tokens)
Join(tokens) ==
    IF Len(tokens) = 1 THEN tokens[1]
    ELSE tokens[1] \o <<";">> \o Join(Tail(tokens))

\* category strings of the categories CSV: two well-formed ones that name
\* the categories a and b in different orders, two with a single token, one
\* of them ending in a digit of another script, and one whose last token
\* does not end in a digit
CategoryStrings ==
    { Join(<<Token("a", "1"), Token("b", "0")>>),
      Join(<<Token("b", "0"), Token("a", "2")>>),
      Join(<<Token("a", "1")>>),
      Join(<<Token("a", "U+0663")>>),
      Join(<<Token("a", "0"), Token("b", "x")>>) }

Ids == 1..MaxId

\* a row of the messages CSV: the original text may be empty
MessageRows == {<<Num(i), Str(help), o>> : i \in Ids, o \in {NaN, Str(dot)}}

CategoryRows == {<<Num(i), Str(c)>> : i \in Ids, c \in CategoryStrings}

Missing == CsvFile("missing", <<>>, <<>>)
Malformed == CsvFile("malformed", <<>>, <<>>)

\* the messages CSVs of at most n rows, and the two unreadable ones
MessagesFiles(n) ==
    {Missing, Malformed} \cup
    {CsvFile("ok", <<id, message, original>>, rows) : rows \in SeqsUpTo(MessageRows, n)}

\* the categories CSVs of at most n rows, and the two unreadable ones
CategoriesFiles(n) ==
    {Missing, Malformed} \cup
    {CsvFile("ok", <<id, categories>>, rows) : rows \in SeqsUpTo(CategoryRows, n)}

\* the values of len(sys.argv) the script is started with: one argument
\* too few, the three it expects, one too many
ArgCounts == {3, 4, 5}

\* the table an earlier run has left in the database file
PriorTable ==
    save_data(clean_data(load_data(
        CsvFile("ok", <<id, message, original>>, <<<<Num(1), Str(help), Str(aide)>>>>),
        CsvFile("ok", <<id, categories>>,
                <<<<Num(1), Str(Join(<<Token("b", "1")>>))>>>>)).df).df, NoTable)

None == DataFrame(<<>>, <<>>, <<>>)

(* -------------------------------- main -------------------------------- *)

Loading == "Loading data..."
Cleaning == "Cleaning data..."
Saving == "Saving data..."
Saved == "Cleaned data saved to database!"
Usage == "Please provide the filepaths ..."

\* if len(sys.argv) >= 4
ArgcOk_atleast(n) == n >= 4

\* if len(sys.argv) == 4
ArgcOk(n) == n = 4

Init ==
    /\ pc = "idle"
    /\ argc = 0
    /\ messages_file \in MessagesFiles(MaxRows)
    /\ categories_file \in CategoriesFiles(MaxRows - Len(messages_file.rows))
    /\ df = None
    /\ joined = None
    /\ db \in {NoTable, PriorTable}
    /\ db_at_start = db
    /\ out = <<>>
    /\ err = "none"

\* the script is started with n - 1 command-line arguments
Start(n) ==
    /\ pc \in {"idle", "exit", "crashed"}
    /\ pc' = "main"
    /\ argc' = n
    /\ df' = None
    /\ joined' = None
    /\ out' = <<>>
    /\ err' = "none"
    /\ db_at_start' = db
    /\ UNCHANGED <<messages_file, categories_file, db>>

\* main, else branch: len(sys.argv) # 4
MainUsage ==
    /\ pc = "main"
    /\ ~ArgcOk(argc)
    /\ out' = Append(out, Usage)
    /\ pc' = "exit"
    /\ UNCHANGED <<argc, messages_file, categories_file, df, joined, db, db_at_start, err>>

\* main storing the merged table as soon as it is loaded
MainLoad_saves ==
    /\ pc = "main"
    /\ ArgcOk(argc)
    /\ out' = Append(out, Loading)
    /\ LET r == load_data(messages_file, categories_file)
       IN  /\ err' = r.err
           /\ IF r.err = "none"
              THEN df' = r.df /\ joined' = r.df /\ pc' = "loaded" /\ db' = save_data(r.df, db)
              ELSE pc' = "crashed" /\ UNCHANGED <<df, joined, db>>
    /\ UNCHANGED <<argc, messages_file, categories_file, db_at_start>>

\* main, lines 90-94
MainLoad ==
    /\ pc = "main"
    /\ ArgcOk(argc)
    /\ out' = Append(out, Loading)
    /\ LET r == load_data(messages_file, categories_file)
       IN  /\ err' = r.err
           /\ IF r.err = "none"
              THEN df' = r.df /\ joined' = r.df /\ pc' = "loaded"
              ELSE pc' = "crashed" /\ UNCHANGED <<df, joined>>
    /\ UNCHANGED <<argc, messages_file, categories_file, db, db_at_start>>

\* main, lines 96-97
MainClean ==
    /\ pc = "loaded"
    /\ out' = Append(out, Cleaning)
    /\ LET r == clean_data(df)
       IN  /\ err' = r.err
           /\ joined' = r.arg
           /\ IF r.err = "none"
              THEN df' = r.df /\ pc' = "cleaned"
              ELSE pc' = "crashed" /\ UNCHANGED df
    /\ UNCHANGED <<argc, messages_file, categories_file, db, db_at_start>>

\* main, lines 99-102
MainSave ==
    /\ pc = "cleaned"
    /\ db' = save_data(df, db)
    /\ out' = out \o <<Saving, Saved>>
    /\ pc' = "exit"
    /\ UNCHANGED <<argc, messages_file, categories_file, df, joined, db_at_start, err>>

Next ==
    \/ \E n \in ArgCounts : Start(n)
    \/ MainUsage
    \/ MainLoad
    \/ MainClean
    \/ MainSave

Spec == Init /\ [][Next]_vars

\* category strings for tables whose rows differ in their number of tokens:
\* a well-formed one of two tokens and one of a single token, and three of
\* two tokens that raise in a column of their own: a first token that does
\* not end in a digit, an empty last token, and a category named twice
MismatchStrings ==
    { Join(<<Token("a", "1"), Token("b", "0")>>),
      Join(<<Token("a", "1")>>),
      Join(<<Token("a", "x"), Token("b", "0")>>),
      Join(<<Token("a", "1"), <<>>>>),
      Join(<<Token("a", "0"), Token("a", "1")>>) }

MismatchRows == {<<Num(i), Str(c)>> : i \in Ids, c \in MismatchStrings}

\* one message, and the other rows spent on a categories CSV over MismatchStrings
InitMismatch ==
    /\ pc = "idle"
    /\ argc = 0
    /\ messages_file \in {CsvFile("ok", <<id, message, original>>, <<m>>) : m \in MessageRows}
    /\ categories_file \in
          {CsvFile("ok", <<id, categories>>, rows) : rows \in SeqsUpTo(MismatchRows, MaxRows - 1)}
    /\ df = None
    /\ joined = None
    /\ db \in {NoTable, PriorTable}
    /\ db_at_start = db
    /\ out = <<>>
    /\ err = "none"

SpecMismatch == InitMismatch /\ [][Next]_vars

(* ------------------------------- claims ------------------------------- *)

\* the table load_data makes of the two files of this run
JoinedInput == load_data(messages_file, categories_file).df

\* the number of columns the joined table has besides the category string
BaseWidth == Len(JoinedInput.columns) - 1

\* the tokens of the category string of row j of the joined table
TokensOfRow(j) == Split(JoinedInput.rows[j][KeyPos(JoinedInput, categories)].s, ";")

\* the 0/1 value a token stands for
Indicator(token) == Num(IF DigitValue(token[Len(token)]) > 0 THEN 1 ELSE 0)

\* row r of the cleaned table carries the message fields of joined row j
SameMessage(r, j) ==
    \A c \in 1..BaseWidth :
        IsNull(JoinedInput.rows[j][c]) \/ df.rows[r][c] = JoinedInput.rows[j][c]

\* some row of the joined table has another number of tokens than the first
DiffTokenCounts ==
    \E j \in DOMAIN JoinedInput.rows : Len(TokensOfRow(j)) # Len(TokensOfRow(1))

KeysOf(file) == {file.rows[r][KeyPos(file, id)] : r \in DOMAIN file.rows}

\* C1: in the table clean_data returns, every value of a derived category
\* column is 0 or 1, and it is 1 exactly when the last character of the
\* token of the row it comes from is a digit greater than 0.
C1_BinaryValues ==
    pc = "cleaned" =>
        \A r \in DOMAIN df.rows :
            /\ \A k \in (BaseWidth + 1)..Len(df.columns) : df.rows[r][k] \in {Num(0), Num(1)}
            /\ \E j \in DOMAIN JoinedInput.rows :
                  /\ SameMessage(r, j)
                  /\ \A k \in 1..(Len(df.columns) - BaseWidth) :
                        df.rows[r][BaseWidth + k] = Indicator(TokensOfRow(j)[k])

\* a cleaned table in which a token ending in 2 has given the value 1
C1_Witness ==
    /\ pc = "cleaned"
    /\ \E j \in DOMAIN JoinedInput.rows, k \in 1..(Len(df.columns) - BaseWidth) :
          /\ TokensOfRow(j)[k][Len(TokensOfRow(j)[k])] = "2"
          /\ \E r \in DOMAIN df.rows : SameMessage(r, j) /\ df.rows[r][BaseWidth + k] = Num(1)

\* C2: every row of the joined table, and of the cleaned table made of it,
\* has an identifier that occurs in the messages file and in the categories file.
C2_InnerJoin ==
    /\ pc = "loaded" =>
          \A r \in DOMAIN joined.rows :
              joined.rows[r][KeyPos(joined, id)] \in KeysOf(messages_file) \cap KeysOf(categories_file)
    /\ pc = "cleaned" =>
          \A r \in DOMAIN df.rows :
              df.rows[r][KeyPos(df, id)] \in KeysOf(messages_file) \cap KeysOf(categories_file)

\* a non-empty cleaned table made of a messages file with an identifier the
\* categories file lacks
C2_Witness ==
    /\ pc = "cleaned"
    /\ df.rows # <<>>
    /\ KeysOf(messages_file) \ KeysOf(categories_file) # {}

\* C3: no two rows of the table clean_data returns are identical in all fields.
C3_NoDuplicateRows ==
    pc = "cleaned" =>
        \A r, q \in DOMAIN df.rows : r # q => df.rows[r] # df.rows[q]

\* C4: the table clean_data returns has no missing value: a value missing
\* before the fill is 0 in a numeric column and '.' in any other column, and
\* every other value is what it was.
C4_NoMissingValues ==
    pc = "cleaned" =>
        LET before == Deduplicated(JoinedInput)
        IN  /\ Len(df.rows) = Len(before.rows)
            /\ \A r \in DOMAIN df.rows : \A k \in DOMAIN df.columns :
                  /\ ~IsNull(df.rows[r][k])
                  /\ df.rows[r][k] =
                        IF ~IsNull(before.rows[r][k]) THEN before.rows[r][k]
                        ELSE IF before.kinds[k] \in {"b", "i", "u", "f", "c"} THEN Num(0)
                        ELSE Str(dot)

\* a cleaned table of two rows, one with a filled value in a text column and
\* one whose value in that column was not missing
C4_Witness ==
    /\ pc = "cleaned"
    /\ Len(df.rows) = 2
    /\ LET before == Deduplicated(JoinedInput)
       IN  \E r, q \in DOMAIN before.rows, k \in DOMAIN before.columns :
              /\ IsNull(before.rows[r][k]) /\ before.kinds[k] = "O" /\ df.rows[r][k] = Str(dot)
              /\ ~IsNull(before.rows[q][k]) /\ df.rows[q][k] = before.rows[q][k]

\* C5: when a run with three arguments has ended, the stored table holds
\* exactly the columns and rows of the table cleaned in that run, which the
\* two files alone determine, whatever was stored before.
C5_ReplaceNotAppend ==
    (pc = "exit" /\ argc = 4) =>
        /\ db = [exists |-> TRUE, columns |-> df.columns, rows |-> df.rows]
        /\ df = clean_data(JoinedInput).df

\* a run that has replaced the table an earlier run had stored
C5_Witness ==
    /\ pc = "exit"
    /\ argc = 4
    /\ db_at_start = PriorTable
    /\ db.rows # <<>>
    /\ db.rows # PriorTable.rows

\* C6: a run with any other number of arguments than three prints the usage
\* message only, loads and cleans nothing and leaves the stored table as it was;
\* the stages are entered with three arguments only.
C6_UsageOnly ==
    /\ (pc = "exit" /\ argc # 4) =>
          out = <<Usage>> /\ db = db_at_start /\ df = None /\ joined = None /\ err = "none"
    /\ pc \in {"loaded", "cleaned", "crashed"} => argc = 4

\* a run with four arguments (len(sys.argv) = 5) that has ended, both files
\* readable and a table stored
C6_Witness ==
    /\ pc = "exit"
    /\ argc = 5
    /\ out = <<Usage>>
    /\ messages_file.status = "ok" /\ categories_file.status = "ok"
    /\ db.exists

\* C7: the derived columns are as many as the first joined row has tokens,
\* the k-th is named by the first row's k-th token without its last two
\* characters, and every joined row is in the result with the values of its
\* own tokens, the k-th token in the k-th derived column.
C7_NamesFromFirstRow ==
    pc = "cleaned" =>
        /\ Len(df.columns) = BaseWidth + Len(TokensOfRow(1))
        /\ \A k \in DOMAIN TokensOfRow(1) :
              df.columns[BaseWidth + k] = SubSeq(TokensOfRow(1)[k], 1, Len(TokensOfRow(1)[k]) - 2)
        /\ \A j \in DOMAIN JoinedInput.rows : \E r \in DOMAIN df.rows :
              /\ SameMessage(r, j)
              /\ \A k \in DOMAIN TokensOfRow(1) :
                    df.rows[r][BaseWidth + k] = Indicator(TokensOfRow(j)[k])

\* two joined rows whose tokens name the categories in different orders,
\* both in the cleaned table
C7_Witness ==
    /\ pc = "cleaned"
    /\ Len(JoinedInput.rows) = 2
    /\ Len(df.rows) = 2
    /\ Len(TokensOfRow(1)) = 2
    /\ TokensOfRow(1)[1][1] # TokensOfRow(2)[1][1]
    /\ df.rows[1][BaseWidth + 1] # df.rows[2][BaseWidth + 1]

\* C8: once clean_data has returned, the joined table the caller passed is
\* what load_data had returned.
C8_InputUnchanged ==
    pc = "cleaned" => joined = JoinedInput

\* C9 as stated: when a row of the joined table has another number of tokens
\* than the first, clean_data completes and returns a table.
C9_SilentMisalign ==
    (out = <<Loading, Cleaning>> /\ DiffTokenCounts) => pc = "cleaned"

\* the label the first joined row gives the k-th derived column
FirstRowLabel(k) == SubSeq(TokensOfRow(1)[k], 1, Len(TokensOfRow(1)[k]) - 2)

\* the first joined row names a category twice
RepeatedLabel ==
    \E k, l \in DOMAIN TokensOfRow(1) : k # l /\ FirstRowLabel(k) = FirstRowLabel(l)

\* some token of some joined row is empty
EmptyToken ==
    \E j \in DOMAIN JoinedInput.rows : \E k \in DOMAIN TokensOfRow(j) : TokensOfRow(j)[k] = <<>>

\* some token of some joined row ends in a character that is no digit
NonDigitToken ==
    \E j \in DOMAIN JoinedInput.rows : \E k \in DOMAIN TokensOfRow(j) :
        /\ TokensOfRow(j)[k] # <<>>
        /\ DigitValue(TokensOfRow(j)[k][Len(TokensOfRow(j)[k])]) < 0

\* C9 amended: when a row of the joined table has another number of tokens
\* than the first, clean_data raises an error before it changes anything and
\* returns no table, and nothing is stored.  The error is a TypeError,
\* IndexError, ValueError or KeyError: a TypeError when the first row is not
\* the longest, and also when every token is non-empty and ends in a digit
\* and the first row names no category twice; a KeyError only if the first row
\* names a category twice, an IndexError only if some token is empty, a
\* ValueError only if some token ends in a non-digit.
C9_MismatchRaises ==
    (out = <<Loading, Cleaning>> /\ DiffTokenCounts) =>
        /\ pc = "crashed"
        /\ err \in {"TypeError", "IndexError", "ValueError", "KeyError"}
        /\ (\E j \in DOMAIN JoinedInput.rows : Len(TokensOfRow(j)) > Len(TokensOfRow(1)))
              => err = "TypeError"
        /\ (~RepeatedLabel /\ ~EmptyToken /\ ~NonDigitToken) => err = "TypeError"
        /\ err = "KeyError" => RepeatedLabel
        /\ err = "IndexError" => EmptyToken
        /\ err = "ValueError" => NonDigitToken
        /\ df = JoinedInput
        /\ joined = JoinedInput
        /\ db = db_at_start

\* a run ended by the IndexError of the empty last token of the first row,
\* met before the None of a second row with fewer tokens
C9_Witness ==
    /\ pc = "crashed"
    /\ out = <<Loading, Cleaning>>
    /\ err = "IndexError"
    /\ Len(JoinedInput.rows) = 2
    /\ Len(TokensOfRow(2)) < Len(TokensOfRow(1))
    /\ TokensOfRow(1)[Len(TokensOfRow(1))] = <<>>

\* C10: the stages run in the order load, clean, save; the stored table
\* changes only in the step that follows a completed clean_data, and a run
\* that load_data or clean_data ends with an error leaves the stored table as
\* it was and never prints the confirmation.
C10_Sequential ==
    [][ /\ (pc' = "loaded" /\ pc # "loaded") => (pc = "main" /\ out' = <<Loading>>)
        /\ (pc' = "cleaned" /\ pc # "cleaned") => (pc = "loaded" /\ out' = <<Loading, Cleaning>>)
        /\ db' # db => (pc = "cleaned" /\ pc' = "exit" /\ db' = save_data(df, db))
        /\ (pc' = "exit" /\ argc' = 4) => out' = <<Loading, Cleaning, Saving, Saved>>
        /\ pc' = "crashed" =>
              /\ db' = db_at_start'
              /\ err' # "none"
              /\ out' \in {<<Loading>>, <<Loading, Cleaning>>} ]_vars

\* a run that clean_data ended with an error, a table being stored before
C10_Witness ==
    /\ pc = "crashed"
    /\ out = <<Loading, Cleaning>>
    /\ db_at_start.exists
    /\ db = db_at_start

====
